---------------------------- MODULE Spec2Model ----------------------------
(* Move Cursor: the key-event state machine of ScrollController              *)
(* (src/move_cursor/src/main.py) over the platform backends                  *)
(* (src/move_cursor/src/backends/*.py).                                      *)
(*                                                                           *)
(* Python strings that the code converts (str.lower) are sequences of        *)
(* character codes; keys, directions and call names, which the code only     *)
(* compares, are TLA+ strings.                                               *)
EXTENDS Integers, Sequences, FiniteSets, TLC

VARIABLES
    platform,                  \* sys.platform, read once by get_backend()
    PAUSE_KEY,                 \* config: name of the pause key
    SCROLL_UP_KEY,             \* config: name of the scroll-up key
    SCROLL_DOWN_KEY,           \* config: name of the scroll-down key
    HORIZONTAL_SCROLL_ENABLED, \* config flag
    SHOW_PAUSE_NOTIFICATION,   \* config flag
    terminal_classes,          \* the backend's catalog (get_terminal_window_classes)
    backend_is_running,        \* BaseBackend._is_running
    backend_is_paused,         \* BaseBackend._is_paused
    is_running,                \* ScrollController._is_running
    shift_pressed,             \* ScrollController._shift_pressed
    listener,                  \* ScrollController._listener: 0 is None, n the n-th Listener
    created,                   \* number of keyboard.Listener objects created so far
    active,                    \* the Listener objects whose thread is running
    pc,                        \* position of the thread inside ScrollController.start()
    ev                         \* the last operation: its name, argument, result,
                               \* the backend calls it made and the messages it posted

vars == <<platform, PAUSE_KEY, SCROLL_UP_KEY, SCROLL_DOWN_KEY,
          HORIZONTAL_SCROLL_ENABLED, SHOW_PAUSE_NOTIFICATION, terminal_classes,
          backend_is_running, backend_is_paused, is_running, shift_pressed,
          listener, created, active, pc, ev>>

config == <<platform, PAUSE_KEY, SCROLL_UP_KEY, SCROLL_DOWN_KEY,
            HORIZONTAL_SCROLL_ENABLED, SHOW_PAUSE_NOTIFICATION, terminal_classes>>

-----------------------------------------------------------------------------
(* Bounds of the model.                                                      *)

\* window handles the OS may report are 0..MaxHandle (0: no window)
MaxHandle == 2
\* longest prefix and suffix put around a catalog entry to build an identity
MaxAffix == 1
\* keyboard.Listener objects one controller creates (calls of start() that get
\* past the is-running check)
MaxStarts == 2

\* threads that call start() on one controller at the same time
MaxThreads == 2

-----------------------------------------------------------------------------
(* Strings.                                                                  *)

\* Python's None where a str is expected (no character has code -1)
NoneStr == <<-1>>

\* bool(s) is False: None or the empty string
Falsy(s) == s = NoneStr \/ s = <<>>

\* one character of str.lower(): 'A'..'Z' (65..90) become 'a'..'z'
LowerChar(c) == IF c \in 65..90 THEN c + 32 ELSE c

\* one character of str.upper(): 'a'..'z' (97..122) become 'A'..'Z'
UpperChar(c) == IF c \in 97..122 THEN c - 32 ELSE c

\* str.lower()
Lower(s) == [i \in 1..Len(s) |-> LowerChar(s[i])]

\* str.upper()
Upper(s) == [i \in 1..Len(s) |-> UpperChar(s[i])]

\* a in b, for two str
IsSubstring(a, b) ==
    \E i \in 0..(Len(b) - Len(a)) : SubSeq(b, i + 1, i + Len(a)) = a

\* x in xs, for a list xs
InList(x, xs) == \E i \in 1..Len(xs) : xs[i] = x

S_none        == <<110, 111, 110, 101>>                          \* "none"
S_NONE        == <<78, 79, 78, 69>>                              \* "NONE"
S_page_up     == <<112, 97, 103, 101, 95, 117, 112>>             \* "page_up"
S_page_down   == <<112, 97, 103, 101, 95, 100, 111, 119, 110>>   \* "page_down"
S_up          == <<117, 112>>                                    \* "up"
S_down        == <<100, 111, 119, 110>>                          \* "down"
S_f12         == <<102, 49, 50>>                                 \* "f12"
S_F12         == <<70, 49, 50>>                                  \* "F12"
S_scroll_lock == <<115, 99, 114, 111, 108, 108, 95, 108, 111, 99, 107>> \* "scroll_lock"
S_pause       == <<112, 97, 117, 115, 101>>                      \* "pause"
S_esc         == <<101, 115, 99>>                                \* "esc"
S_home        == <<104, 111, 109, 101>>                          \* "home"

-----------------------------------------------------------------------------
(* Key-name resolution (main.py, ScrollController).                          *)

\* the value of a binding that resolved to nothing, and the key pynput reports
\* for a key it does not know
None == "None"

KEY_MAP ==
    (S_page_up :> "Key.page_up") @@ (S_page_down :> "Key.page_down") @@
    (S_up :> "Key.up") @@ (S_down :> "Key.down") @@ (S_f12 :> "Key.f12") @@
    (S_scroll_lock :> "Key.scroll_lock") @@ (S_pause :> "Key.pause") @@
    (S_esc :> "Key.esc")

\* dict.get(k): the value, or None
KEY_MAP_get(k) == IF k \in DOMAIN KEY_MAP THEN KEY_MAP[k] ELSE None

_get_key_from_config(key_name) ==
    IF key_name = S_none \/ Falsy(key_name)
    THEN None
    ELSE KEY_MAP_get(Lower(key_name))

\* the three bindings __init__ resolves once from the configuration
_pause_key       == _get_key_from_config(PAUSE_KEY)
_scroll_up_key   == _get_key_from_config(SCROLL_UP_KEY)
_scroll_down_key == _get_key_from_config(SCROLL_DOWN_KEY)

_is_scroll_key(key) == key \in {_scroll_up_key, _scroll_down_key}

-----------------------------------------------------------------------------
(* Terminal catalogs and classification (backends/*.py).                     *)

\* linux.py: "gnome-terminal", "konsole", "xterm", "urxvt", "alacritty",
\* "kitty", "terminator", "guake", "xfce4-terminal"
LINUX_TERMINAL_CLASSES ==
    <<<<103, 110, 111, 109, 101, 45, 116, 101, 114, 109, 105, 110, 97, 108>>,
      <<107, 111, 110, 115, 111, 108, 101>>,
      <<120, 116, 101, 114, 109>>,
      <<117, 114, 120, 118, 116>>,
      <<97, 108, 97, 99, 114, 105, 116, 116, 121>>,
      <<107, 105, 116, 116, 121>>,
      <<116, 101, 114, 109, 105, 110, 97, 116, 111, 114>>,
      <<103, 117, 97, 107, 101>>,
      <<120, 102, 99, 101, 52, 45, 116, 101, 114, 109, 105, 110, 97, 108>>>>

\* darwin.py: "com.apple.Terminal", "com.googlecode.iterm2",
\* "com.microsoft.VSCode", "com.jetbrains.pycharm", "com.jetbrains.intellij",
\* "org.alacritty", "net.kovidgoyal.kitty"
MACOS_TERMINAL_BUNDLES ==
    <<<<99, 111, 109, 46, 97, 112, 112, 108, 101, 46, 84, 101, 114, 109, 105, 110, 97, 108>>,
      <<99, 111, 109, 46, 103, 111, 111, 103, 108, 101, 99, 111, 100, 101, 46, 105, 116, 101, 114, 109, 50>>,
      <<99, 111, 109, 46, 109, 105, 99, 114, 111, 115, 111, 102, 116, 46, 86, 83, 67, 111, 100, 101>>,
      <<99, 111, 109, 46, 106, 101, 116, 98, 114, 97, 105, 110, 115, 46, 112, 121, 99, 104, 97, 114, 109>>,
      <<99, 111, 109, 46, 106, 101, 116, 98, 114, 97, 105, 110, 115, 46, 105, 110, 116, 101, 108, 108, 105, 106>>,
      <<111, 114, 103, 46, 97, 108, 97, 99, 114, 105, 116, 116, 121>>,
      <<110, 101, 116, 46, 107, 111, 118, 105, 100, 103, 111, 121, 97, 108, 46, 107, 105, 116, 116, 121>>>>

S_ConsoleWindowClass == <<67, 111, 110, 115, 111, 108, 101, 87, 105, 110, 100, 111, 119, 67, 108, 97, 115, 115>>
S_CASCADIA == <<67, 65, 83, 67, 65, 68, 73, 65, 95, 72, 79, 83, 84, 73, 78, 71, 95, 87, 73, 78, 68, 79, 87, 95, 67, 76, 65, 83, 83>>
S_mintty == <<109, 105, 110, 116, 116, 121>>
S_Notepad == <<78, 111, 116, 101, 112, 97, 100>>
S_org_kde == <<111, 114, 103, 46, 107, 100, 101, 46>>
S_12345 == <<45, 49, 50, 51, 52, 53>>

\* The Windows catalog is configuration (WINDOWS_TERMINAL_CLASSES, read by
\* windows.py:62-65): an input. Two candidate values:
\* ["ConsoleWindowClass", "CASCADIA_HOSTING_WINDOW_CLASS"] and ["mintty"].
WindowsCatalogs == {<<S_ConsoleWindowClass, S_CASCADIA>>, <<S_mintty>>}

Platforms == {"win32", "linux", "darwin"}

\* the catalogs get_terminal_window_classes() can return on a platform
Catalogs(p) ==
    CASE p = "win32"  -> WindowsCatalogs
      [] p = "linux"  -> {LINUX_TERMINAL_CLASSES}
      [] p = "darwin" -> {MACOS_TERMINAL_BUNDLES}

\* WindowsBackend.is_terminal_window
Windows_is_terminal_window(classes, window_class) ==
    IF Falsy(window_class) THEN FALSE
    ELSE IF InList(window_class, classes) THEN TRUE
    ELSE \E i \in 1..Len(classes) :
            IsSubstring(Lower(classes[i]), Lower(window_class))

\* LinuxBackend.is_terminal_window
Linux_is_terminal_window(classes, window_class) ==
    IF Falsy(window_class) THEN FALSE
    ELSE InList(Lower(window_class), [i \in 1..Len(classes) |-> Lower(classes[i])])

\* Darwin_is_terminal_window comparing the bundle id as it is with the
\* lower-cased catalog
Darwin_is_terminal_window_as_is(classes, bundle_id) ==
    IF Falsy(bundle_id) THEN FALSE
    ELSE InList(bundle_id, [i \in 1..Len(classes) |-> Lower(classes[i])])

\* DarwinBackend.is_terminal_window
Darwin_is_terminal_window(classes, bundle_id) ==
    IF Falsy(bundle_id) THEN FALSE
    ELSE InList(Lower(bundle_id), [i \in 1..Len(classes) |-> Lower(classes[i])])

\* backend.is_terminal_window of the backend get_backend() selected
is_terminal_window(p, classes, window_class) ==
    CASE p = "win32"  -> Windows_is_terminal_window(classes, window_class)
      [] p = "linux"  -> Linux_is_terminal_window(classes, window_class)
      [] p = "darwin" -> Darwin_is_terminal_window(classes, window_class)

-----------------------------------------------------------------------------
(* Scroll injection (backends/*.py).  A scroll returns its result and the    *)
(* messages it posted.                                                       *)

\* win32con scroll-bar commands named by windows.py:34-45
SB_LINEUP    == 0
SB_LINEDOWN  == 1
SB_PAGEUP    == 2
SB_PAGEDOWN  == 3
SB_LINELEFT  == 0
SB_LINERIGHT == 1
SB_PAGELEFT  == 2
SB_PAGERIGHT == 3

SCROLL_COMMANDS ==
    ("up" :> SB_PAGEUP) @@ ("down" :> SB_PAGEDOWN) @@
    ("line_up" :> SB_LINEUP) @@ ("line_down" :> SB_LINEDOWN)

HSCROLL_COMMANDS ==
    ("left" :> SB_LINELEFT) @@ ("right" :> SB_LINERIGHT) @@
    ("page_left" :> SB_PAGELEFT) @@ ("page_right" :> SB_PAGERIGHT)

\* what a scroll call gives back: its return value and the posted messages
Scrolled(ret, posts) == [ret |-> ret, posts |-> posts]

\* `command = TABLE.get(direction); if not command`: the lookup found nothing
\* (None) or found the number 0
NotCommand(table, direction) ==
    IF direction \in DOMAIN table THEN table[direction] = 0 ELSE TRUE

\* WindowsBackend.scroll_vertical; isWindow is what win32gui.IsWindow(hwnd)
\* answers, postRaises whether win32api.PostMessage raises
Windows_scroll_vertical(hwnd, direction, isWindow, postRaises) ==
    IF hwnd = 0 THEN Scrolled(FALSE, <<>>)
    ELSE IF NotCommand(SCROLL_COMMANDS, direction) THEN Scrolled(FALSE, <<>>)
    ELSE IF ~isWindow THEN Scrolled(FALSE, <<>>)
    ELSE IF postRaises THEN Scrolled(FALSE, <<>>)
    ELSE Scrolled(TRUE, <<[hwnd |-> hwnd, msg |-> "WM_VSCROLL",
                          wparam |-> SCROLL_COMMANDS[direction]]>>)

\* WindowsBackend.scroll_horizontal
Windows_scroll_horizontal(hwnd, direction, isWindow, postRaises) ==
    IF hwnd = 0 THEN Scrolled(FALSE, <<>>)
    ELSE IF NotCommand(HSCROLL_COMMANDS, direction) THEN Scrolled(FALSE, <<>>)
    ELSE IF ~isWindow THEN Scrolled(FALSE, <<>>)
    ELSE IF postRaises THEN Scrolled(FALSE, <<>>)
    ELSE Scrolled(TRUE, <<[hwnd |-> hwnd, msg |-> "WM_HSCROLL",
                          wparam |-> HSCROLL_COMMANDS[direction]]>>)

\* LinuxBackend.scroll_vertical / scroll_horizontal: not implemented
Linux_scroll(hwnd, direction) == Scrolled(FALSE, <<>>)

\* DarwinBackend.scroll_vertical / scroll_horizontal: not implemented
Darwin_scroll(hwnd, direction) == Scrolled(FALSE, <<>>)

\* the results backend.scroll_vertical(hwnd, direction) can have, over what the
\* OS answers
scroll_vertical(p, hwnd, direction) ==
    CASE p = "win32"  -> {Windows_scroll_vertical(hwnd, direction, w, r) :
                             w \in BOOLEAN, r \in BOOLEAN}
      [] p = "linux"  -> {Linux_scroll(hwnd, direction)}
      [] p = "darwin" -> {Darwin_scroll(hwnd, direction)}

\* the results backend.scroll_horizontal(hwnd, direction) can have
scroll_horizontal(p, hwnd, direction) ==
    CASE p = "win32"  -> {Windows_scroll_horizontal(hwnd, direction, w, r) :
                             w \in BOOLEAN, r \in BOOLEAN}
      [] p = "linux"  -> {Linux_scroll(hwnd, direction)}
      [] p = "darwin" -> {Darwin_scroll(hwnd, direction)}

-----------------------------------------------------------------------------
(* The backend's state holder (backends/base.py) and the record of calls.    *)

\* one call made on the backend (or on the listener): name, arguments, result
Call(fn, params, ret) == [fn |-> fn, params |-> params, ret |-> ret]

\* the record of one operation: which, on what, the calls it made in order and
\* the messages those calls posted
Ev(op, arg, calls, posts) == [op |-> op, arg |-> arg, calls |-> calls, posts |-> posts]

\* what _handle_scroll did: the calls it made and the messages they posted
Handled(calls, posts) == [calls |-> calls, posts |-> posts]

\* toggle_pause setting the flag instead of flipping it
toggle_pause_setting(paused) == TRUE

\* Backend_stop leaving the pause flag as it was
Backend_stop_keeping_pause(running, paused) == <<FALSE, paused>>

\* BaseBackend.toggle_pause: the new value of _is_paused, which it also returns
toggle_pause(paused) == ~paused

\* BaseBackend.set_pause: the new value of _is_paused
set_pause(old, paused) == paused

\* BaseBackend.start: the new <<_is_running, _is_paused>>
Backend_start(running, paused) == <<TRUE, FALSE>>

\* BaseBackend.stop: the new <<_is_running, _is_paused>>
Backend_stop(running, paused) == <<FALSE, FALSE>>

-----------------------------------------------------------------------------
(* What the operating system can answer.                                     *)

Handles == 0..MaxHandle

\* the class names the foreground window can have: a catalog entry as it is,
\* one in another case with a suffix, and a window that is no terminal
WindowClasses(classes) == {classes[1], Upper(classes[1]) \o S_12345, S_Notepad}

\* the results of backend.get_active_window_class(): on Windows the class of
\* the foreground window, or None (no foreground window, or the query raised);
\* on Linux and macOS always None
get_active_window_class(p, classes) ==
    CASE p = "win32"  -> {NoneStr} \cup WindowClasses(classes)
      [] p = "linux"  -> {NoneStr}
      [] p = "darwin" -> {NoneStr}

\* hasattr(backend, 'get_active_window_handle'): LinuxBackend has none
has_get_active_window_handle(p) == p \in {"win32", "darwin"}

\* the results of backend.get_active_window_handle()
get_active_window_handle(p) ==
    CASE p = "win32"  -> Handles
      [] p = "darwin" -> {0}

-----------------------------------------------------------------------------
(* ScrollController (main.py).                                               *)

\* DispatchScroll with the two horizontal directions exchanged
DispatchScroll_swapped(direction, log, hwnd) ==
    IF shift_pressed /\ HORIZONTAL_SCROLL_ENABLED
    THEN LET h_direction == IF direction = "up" THEN "right" ELSE "left"
         IN  {Handled(Append(log, Call("scroll_horizontal", <<hwnd, h_direction>>, s.ret)),
                      s.posts) :
                 s \in scroll_horizontal(platform, hwnd, h_direction)}
    ELSE {Handled(Append(log, Call("scroll_vertical", <<hwnd, direction>>, s.ret)),
                  s.posts) :
             s \in scroll_vertical(platform, hwnd, direction)}

\* DispatchScroll testing Shift alone, not HORIZONTAL_SCROLL_ENABLED
DispatchScroll_shift_alone(direction, log, hwnd) ==
    IF shift_pressed
    THEN LET h_direction == IF direction = "up" THEN "left" ELSE "right"
         IN  {Handled(Append(log, Call("scroll_horizontal", <<hwnd, h_direction>>, s.ret)),
                      s.posts) :
                 s \in scroll_horizontal(platform, hwnd, h_direction)}
    ELSE {Handled(Append(log, Call("scroll_vertical", <<hwnd, direction>>, s.ret)),
                  s.posts) :
             s \in scroll_vertical(platform, hwnd, direction)}

\* _handle_scroll from line 141 on: the scroll call for handle hwnd, after the
\* calls in log
DispatchScroll(direction, log, hwnd) ==
    IF shift_pressed /\ HORIZONTAL_SCROLL_ENABLED
    THEN LET h_direction == IF direction = "up" THEN "left" ELSE "right"
         IN  {Handled(Append(log, Call("scroll_horizontal", <<hwnd, h_direction>>, s.ret)),
                      s.posts) :
                 s \in scroll_horizontal(platform, hwnd, h_direction)}
    ELSE {Handled(Append(log, Call("scroll_vertical", <<hwnd, direction>>, s.ret)),
                  s.posts) :
             s \in scroll_vertical(platform, hwnd, direction)}

\* ClassifyAndScroll without the return of line 137: a window that is no
\* terminal is scrolled too
ClassifyAndScroll_unclassified(direction, window_class) ==
    LET c1 == Call("get_active_window_class", <<>>, window_class)
    IN  IF Falsy(window_class) THEN {Handled(<<c1>>, <<>>)}
        ELSE LET t  == is_terminal_window(platform, terminal_classes, window_class)
                 c2 == Call("is_terminal_window", <<window_class>>, t)
             IN  IF has_get_active_window_handle(platform)
                 THEN UNION {DispatchScroll(direction,
                                 <<c1, c2, Call("get_active_window_handle", <<>>, h)>>, h) :
                                h \in get_active_window_handle(platform)}
                 ELSE DispatchScroll(direction, <<c1, c2>>, 0)

\* ClassifyAndScroll making no scroll call when the handle is zero
ClassifyAndScroll_skipping_zero(direction, window_class) ==
    LET c1 == Call("get_active_window_class", <<>>, window_class)
    IN  IF Falsy(window_class) THEN {Handled(<<c1>>, <<>>)}
        ELSE LET t  == is_terminal_window(platform, terminal_classes, window_class)
                 c2 == Call("is_terminal_window", <<window_class>>, t)
             IN  IF ~t THEN {Handled(<<c1, c2>>, <<>>)}
                 ELSE IF has_get_active_window_handle(platform)
                 THEN UNION {IF h = 0
                             THEN {Handled(<<c1, c2, Call("get_active_window_handle", <<>>, h)>>,
                                           <<>>)}
                             ELSE DispatchScroll(direction,
                                      <<c1, c2, Call("get_active_window_handle", <<>>, h)>>, h) :
                                h \in get_active_window_handle(platform)}
                 ELSE {Handled(<<c1, c2>>, <<>>)}

\* _handle_scroll from line 131 on: window_class is what
\* get_active_window_class() returned
ClassifyAndScroll(direction, window_class) ==
    LET c1 == Call("get_active_window_class", <<>>, window_class)
    IN  IF Falsy(window_class) THEN {Handled(<<c1>>, <<>>)}
        ELSE LET t  == is_terminal_window(platform, terminal_classes, window_class)
                 c2 == Call("is_terminal_window", <<window_class>>, t)
             IN  IF ~t THEN {Handled(<<c1, c2>>, <<>>)}
                 ELSE IF has_get_active_window_handle(platform)
                 THEN UNION {DispatchScroll(direction,
                                 <<c1, c2, Call("get_active_window_handle", <<>>, h)>>, h) :
                                h \in get_active_window_handle(platform)}
                 ELSE DispatchScroll(direction, <<c1, c2>>, 0)

\* _handle_scroll without the pause check of line 126
_handle_scroll_ignoring_pause(direction) ==
    UNION {ClassifyAndScroll(direction, wc) :
              wc \in get_active_window_class(platform, terminal_classes)}

\* ScrollController._handle_scroll: every outcome it can have in this state
_handle_scroll(direction) ==
    IF backend_is_paused THEN {Handled(<<>>, <<>>)}
    ELSE UNION {ClassifyAndScroll(direction, wc) :
                   wc \in get_active_window_class(platform, terminal_classes)}

\* ScrollController._show_pause_notification: the calls it makes
_show_pause_notification(paused) ==
    IF SHOW_PAUSE_NOTIFICATION
    THEN <<Call("show_notification", <<paused>>, None)>>
    ELSE <<>>

\* stop_calls without the is-running check of line 247
stop_calls_unguarded ==
    <<Call("stop", <<>>, None)>> \o
    (IF listener # 0 THEN <<Call("listener.stop", <<listener>>, None)>> ELSE <<>>)

\* ScrollController.stop: the calls it makes
stop_calls ==
    IF ~is_running THEN <<>>
    ELSE <<Call("stop", <<>>, None)>> \o
         (IF listener # 0 THEN <<Call("listener.stop", <<listener>>, None)>> ELSE <<>>)

\* ScrollController.stop: its effect on the controller, backend and listener
stop ==
    IF ~is_running
    THEN UNCHANGED <<is_running, backend_is_running, backend_is_paused, active>>
    ELSE /\ is_running' = FALSE
         /\ backend_is_running' = Backend_stop(backend_is_running, backend_is_paused)[1]
         /\ backend_is_paused' = Backend_stop(backend_is_running, backend_is_paused)[2]
         /\ active' = IF listener # 0 THEN active \ {listener} ELSE active

\* the keys the listener can report: None is a key pynput does not know
Keys == {None, "Key.shift", "Key.esc", "Key.page_up", "Key.page_down",
         "Key.f12", "KeyCode.a"}

\* the names used to vary all three bindings together: "none", "F12",
\* "page_up", "esc"
BindingNames == {S_none, S_F12, S_page_up, S_esc}

\* names that bind nothing: "none", "", and "home" and "NONE", which are not
\* in KEY_MAP
UnboundNames == {S_none, <<>>, S_home, S_NONE}

Configuration(p, u, d, h, n, pl, cat) ==
    [PAUSE_KEY |-> p, SCROLL_UP_KEY |-> u, SCROLL_DOWN_KEY |-> d,
     HORIZONTAL_SCROLL_ENABLED |-> h, SHOW_PAUSE_NOTIFICATION |-> n,
     platform |-> pl, terminal_classes |-> cat]

\* every choice of the three bindings among BindingNames (collisions, "esc"
\* and "none" included), on Windows with both flags set
BindingConfigurations ==
    {Configuration(p, u, d, TRUE, TRUE, "win32", <<S_mintty>>) :
        p \in BindingNames, u \in BindingNames, d \in BindingNames}

\* every platform, catalog and value of the two flags, with the bindings
\* "F12", "page_up", "page_down"
PlatformConfigurations ==
    UNION {{Configuration(S_F12, S_page_up, S_page_down, h, n, pl, cat) :
               h \in BOOLEAN, n \in BOOLEAN, cat \in Catalogs(pl)} :
             pl \in Platforms}

\* each binding in turn unbound, in each of the ways of UnboundNames
UnboundConfigurations ==
    UNION {{Configuration(x, S_page_up, S_page_down, TRUE, TRUE, "win32", <<S_mintty>>),
            Configuration(S_F12, x, S_page_down, TRUE, TRUE, "win32", <<S_mintty>>),
            Configuration(S_F12, S_page_up, x, TRUE, TRUE, "win32", <<S_mintty>>)} :
             x \in UnboundNames}

\* the configurations the controller is constructed with
Configurations ==
    BindingConfigurations \cup PlatformConfigurations \cup UnboundConfigurations

\* on_press stopping the controller when the scroll call returned False
on_press_failure_stops(key) ==
    IF key = "Key.shift"
    THEN /\ shift_pressed' = TRUE
         /\ ev' = Ev("on_press", key, <<>>, <<>>)
         /\ UNCHANGED <<is_running, backend_is_running, backend_is_paused, active>>
    ELSE IF key = _pause_key
    THEN LET new_state == toggle_pause(backend_is_paused)
         IN  /\ backend_is_paused' = new_state
             /\ ev' = Ev("on_press", key,
                         <<Call("toggle_pause", <<>>, new_state)>> \o
                             _show_pause_notification(new_state),
                         <<>>)
             /\ UNCHANGED <<is_running, backend_is_running, shift_pressed, active>>
    ELSE IF key = "Key.esc"
    THEN /\ stop
         /\ ev' = Ev("on_press", key, stop_calls, <<>>)
         /\ UNCHANGED shift_pressed
    ELSE IF _is_scroll_key(key)
    THEN /\ \E h \in _handle_scroll(IF key = _scroll_up_key THEN "up" ELSE "down") :
                /\ ev' = Ev("on_press", key, h.calls, h.posts)
                /\ IF \E i \in 1..Len(h.calls) :
                         h.calls[i].fn \in {"scroll_vertical", "scroll_horizontal"}
                         /\ h.calls[i].ret = FALSE
                   THEN stop
                   ELSE UNCHANGED <<is_running, backend_is_running,
                                    backend_is_paused, active>>
         /\ UNCHANGED shift_pressed
    ELSE /\ ev' = Ev("on_press", key, <<>>, <<>>)
         /\ UNCHANGED <<is_running, backend_is_running, backend_is_paused,
                        shift_pressed, active>>

\* ScrollController.on_press
on_press(key) ==
    IF key = "Key.shift"
    THEN /\ shift_pressed' = TRUE
         /\ ev' = Ev("on_press", key, <<>>, <<>>)
         /\ UNCHANGED <<is_running, backend_is_running, backend_is_paused, active>>
    ELSE IF key = _pause_key
    THEN LET new_state == toggle_pause(backend_is_paused)
         IN  /\ backend_is_paused' = new_state
             /\ ev' = Ev("on_press", key,
                         <<Call("toggle_pause", <<>>, new_state)>> \o
                             _show_pause_notification(new_state),
                         <<>>)
             /\ UNCHANGED <<is_running, backend_is_running, shift_pressed, active>>
    ELSE IF key = "Key.esc"
    THEN /\ stop
         /\ ev' = Ev("on_press", key, stop_calls, <<>>)
         /\ UNCHANGED shift_pressed
    ELSE IF _is_scroll_key(key)
    THEN /\ \E h \in _handle_scroll(IF key = _scroll_up_key THEN "up" ELSE "down") :
                ev' = Ev("on_press", key, h.calls, h.posts)
         /\ UNCHANGED <<is_running, backend_is_running, backend_is_paused,
                        shift_pressed, active>>
    ELSE /\ ev' = Ev("on_press", key, <<>>, <<>>)
         /\ UNCHANGED <<is_running, backend_is_running, backend_is_paused,
                        shift_pressed, active>>

\* on_release clearing the Shift state on the release of any key
on_release_any_key(key) ==
    /\ shift_pressed' = FALSE
    /\ ev' = Ev("on_release", key, <<>>, <<>>)
    /\ UNCHANGED <<is_running, backend_is_running, backend_is_paused, active>>

\* ScrollController.on_release
on_release(key) ==
    /\ shift_pressed' = IF key = "Key.shift" THEN FALSE ELSE shift_pressed
    /\ ev' = Ev("on_release", key, <<>>, <<>>)
    /\ UNCHANGED <<is_running, backend_is_running, backend_is_paused, active>>

\* a key-down event reaches the handler
KeyDown ==
    /\ \E key \in Keys : on_press(key)
    /\ UNCHANGED <<config, listener, created, pc>>

\* a key-up event reaches the handler
KeyUp ==
    /\ \E key \in Keys : on_release(key)
    /\ UNCHANGED <<config, listener, created, pc>>

\* ScrollController.start, lines 212-228: the is-running check, backend.start()
\* and _is_running = True
StartBegin ==
    /\ pc = "idle"
    /\ IF is_running
       THEN /\ ev' = Ev("start", "already running", <<>>, <<>>)
            /\ UNCHANGED <<is_running, backend_is_running, backend_is_paused, pc>>
       ELSE /\ created < MaxStarts
            /\ backend_is_running' = Backend_start(backend_is_running, backend_is_paused)[1]
            /\ backend_is_paused' = Backend_start(backend_is_running, backend_is_paused)[2]
            /\ is_running' = TRUE
            /\ pc' = "create"
            /\ ev' = Ev("start", "begin", <<Call("start", <<>>, None)>>, <<>>)
    /\ UNCHANGED <<config, shift_pressed, listener, created, active>>

\* start, line 231: keyboard.Listener(...) is created and entered, which starts
\* its thread; self._listener is not assigned yet
StartListener ==
    /\ pc = "create"
    /\ created' = created + 1
    /\ active' = active \cup {created + 1}
    /\ pc' = "assign"
    /\ ev' = Ev("start", "listener started", <<>>, <<>>)
    /\ UNCHANGED <<config, is_running, backend_is_running, backend_is_paused,
                   shift_pressed, listener>>

\* start, line 234: `as self._listener`
StartAssign ==
    /\ pc = "assign"
    /\ listener' = created
    /\ pc' = "join"
    /\ ev' = Ev("start", "listener assigned", <<>>, <<>>)
    /\ UNCHANGED <<config, is_running, backend_is_running, backend_is_paused,
                   shift_pressed, created, active>>

\* start, line 236: self._listener.join() returns once that listener's thread
\* has ended, and the with block is left
StartJoined ==
    /\ pc = "join"
    /\ listener \notin active
    /\ pc' = "finally"
    /\ ev' = Ev("start", "joined", <<>>, <<>>)
    /\ UNCHANGED <<config, is_running, backend_is_running, backend_is_paused,
                   shift_pressed, listener, created, active>>

\* start, lines 242-243: finally: self.stop(), and start returns
StartFinally ==
    /\ pc = "finally"
    /\ stop
    /\ pc' = "idle"
    /\ ev' = Ev("start", "return", stop_calls, <<>>)
    /\ UNCHANGED <<config, shift_pressed, listener, created>>

\* ScrollController.stop called from outside the handlers
Stop ==
    /\ stop
    /\ ev' = Ev("stop", None, stop_calls, <<>>)
    /\ UNCHANGED <<config, shift_pressed, listener, created, pc>>

\* BaseBackend.start called directly
BackendStart ==
    /\ backend_is_running' = Backend_start(backend_is_running, backend_is_paused)[1]
    /\ backend_is_paused' = Backend_start(backend_is_running, backend_is_paused)[2]
    /\ ev' = Ev("backend.start", None, <<Call("start", <<>>, None)>>, <<>>)
    /\ UNCHANGED <<config, is_running, shift_pressed, listener, created, active, pc>>

\* BaseBackend.stop called directly
BackendStop ==
    /\ backend_is_running' = Backend_stop(backend_is_running, backend_is_paused)[1]
    /\ backend_is_paused' = Backend_stop(backend_is_running, backend_is_paused)[2]
    /\ ev' = Ev("backend.stop", None, <<Call("stop", <<>>, None)>>, <<>>)
    /\ UNCHANGED <<config, is_running, shift_pressed, listener, created, active, pc>>

\* BaseBackend.toggle_pause called directly
BackendTogglePause ==
    /\ backend_is_paused' = toggle_pause(backend_is_paused)
    /\ ev' = Ev("backend.toggle_pause", None,
                <<Call("toggle_pause", <<>>, toggle_pause(backend_is_paused))>>, <<>>)
    /\ UNCHANGED <<config, is_running, backend_is_running, shift_pressed,
                   listener, created, active, pc>>

\* BaseBackend.set_pause called directly
BackendSetPause ==
    /\ \E paused \in BOOLEAN :
          /\ backend_is_paused' = set_pause(backend_is_paused, paused)
          /\ ev' = Ev("backend.set_pause", None,
                      <<Call("set_pause", <<paused>>, None)>>, <<>>)
    /\ UNCHANGED <<config, is_running, backend_is_running, shift_pressed,
                   listener, created, active, pc>>

\* the state ScrollController.__init__ leaves, under configuration c, with e
\* as the record of the last operation
ConstructedWith(c, e) ==
    /\ platform = c.platform
    /\ terminal_classes = c.terminal_classes
    /\ PAUSE_KEY = c.PAUSE_KEY
    /\ SCROLL_UP_KEY = c.SCROLL_UP_KEY
    /\ SCROLL_DOWN_KEY = c.SCROLL_DOWN_KEY
    /\ HORIZONTAL_SCROLL_ENABLED = c.HORIZONTAL_SCROLL_ENABLED
    /\ SHOW_PAUSE_NOTIFICATION = c.SHOW_PAUSE_NOTIFICATION
    /\ backend_is_running = FALSE
    /\ backend_is_paused = FALSE
    /\ is_running = FALSE
    /\ shift_pressed = FALSE
    /\ listener = 0
    /\ created = 0
    /\ active = {}
    /\ pc = "idle"
    /\ ev = e

\* the state ScrollController.__init__ leaves, under configuration c
Constructed(c) == ConstructedWith(c, Ev("__init__", None, <<>>, <<>>))

Init == \E c \in Configurations : Constructed(c)

Next ==
    \/ KeyDown
    \/ KeyUp
    \/ StartBegin
    \/ StartListener
    \/ StartAssign
    \/ StartJoined
    \/ StartFinally
    \/ Stop
    \/ BackendStart
    \/ BackendStop
    \/ BackendTogglePause
    \/ BackendSetPause

Spec == Init /\ [][Next]_vars

-----------------------------------------------------------------------------
(* Classification alone: is_terminal_window applied to identities built      *)
(* around the catalog entries.                                               *)

\* characters of the prefixes and suffixes: 'x', '-', 'K'
AffixChars == {120, 45, 75}

\* the strings over AffixChars of length n
RECURSIVE StringsOfLen(_)
StringsOfLen(n) ==
    IF n = 0 THEN {<<>>}
    ELSE {Append(s, c) : s \in StringsOfLen(n - 1), c \in AffixChars}

Affixes == UNION {StringsOfLen(n) : n \in 0..MaxAffix}

\* a catalog entry as written, upper-cased and lower-cased
Variants(e) == {e, Upper(e), Lower(e)}

\* the identities classified: None, "", every case variant of every catalog
\* entry (or nothing) between a prefix and a suffix, and every entry between
\* "org.kde." and "-12345"
Identities(classes) ==
    {NoneStr, <<>>}
    \cup {p \o v \o s : p \in Affixes, s \in Affixes,
                        v \in {<<>>} \cup UNION {Variants(classes[i]) : i \in 1..Len(classes)}}
    \cup {S_org_kde \o classes[i] \o S_12345 : i \in 1..Len(classes)}

\* backend.is_terminal_window(window_class) called on the identity drawn
IsTerminalCall ==
    /\ ev.op = "argument"
    /\ ev' = Ev("is_terminal_window", ev.arg,
                <<Call("is_terminal_window", <<ev.arg>>,
                       is_terminal_window(platform, terminal_classes, ev.arg))>>,
                <<>>)
    /\ UNCHANGED <<config, is_running, backend_is_running, backend_is_paused,
                   shift_pressed, listener, created, active, pc>>

\* a backend of each platform and catalog, and an identity to classify
InitClassify ==
    \E c \in PlatformConfigurations :
        \E x \in Identities(c.terminal_classes) :
            ConstructedWith(c, Ev("argument", x, <<>>, <<>>))

NextClassify == IsTerminalCall

SpecClassify == InitClassify /\ [][NextClassify]_vars

-----------------------------------------------------------------------------
(* The Windows scroll calls alone.                                           *)

\* the directions passed: the keys of the two command tables and one that is
\* in neither
Directions == {"up", "down", "line_up", "line_down",
               "left", "right", "page_left", "page_right", "sideways"}

\* the arguments of a scroll call and what the OS answers during it
ScrollArguments ==
    [hwnd : Handles, direction : Directions,
     isWindow : BOOLEAN, postRaises : BOOLEAN]

\* WindowsBackend.scroll_vertical(hwnd, direction) called on the arguments drawn
WindowsScrollVerticalCall ==
    /\ ev.op = "argument"
    /\ LET a == ev.arg
           s == Windows_scroll_vertical(a.hwnd, a.direction, a.isWindow, a.postRaises)
       IN  ev' = Ev("scroll_vertical", a,
                    <<Call("scroll_vertical", <<a.hwnd, a.direction>>, s.ret)>>,
                    s.posts)
    /\ UNCHANGED <<config, is_running, backend_is_running, backend_is_paused,
                   shift_pressed, listener, created, active, pc>>

\* WindowsBackend.scroll_horizontal(hwnd, direction) called on the arguments drawn
WindowsScrollHorizontalCall ==
    /\ ev.op = "argument"
    /\ LET a == ev.arg
           s == Windows_scroll_horizontal(a.hwnd, a.direction, a.isWindow, a.postRaises)
       IN  ev' = Ev("scroll_horizontal", a,
                    <<Call("scroll_horizontal", <<a.hwnd, a.direction>>, s.ret)>>,
                    s.posts)
    /\ UNCHANGED <<config, is_running, backend_is_running, backend_is_paused,
                   shift_pressed, listener, created, active, pc>>

\* a Windows backend, and the arguments of one scroll call
InitWindowsScroll ==
    \E c \in {x \in PlatformConfigurations : x.platform = "win32"} :
        \E a \in ScrollArguments :
            ConstructedWith(c, Ev("argument", a, <<>>, <<>>))

NextWindowsScroll ==
    \/ WindowsScrollVerticalCall
    \/ WindowsScrollHorizontalCall

SpecWindowsScroll == InitWindowsScroll /\ [][NextWindowsScroll]_vars

-----------------------------------------------------------------------------
(* Exceptions: a backend (any BaseBackend) or a listener whose calls can     *)
(* raise.  on_press wraps its body in try/except Exception (main.py:167,     *)
(* 193-194): the call that raises ends the handler, what the handler did     *)
(* before it stays done.  start() logs, re-raises and runs finally: stop().  *)

\* the record of a call that raised instead of returning
Raises(fn) == [fn |-> "raise", params |-> <<fn>>, ret |-> None]

\* PauseKeyRaising undoing the flip when the notification raises
PauseKeyRaising_reverting(key) ==
    \/ /\ ev' = Ev("on_press", key, <<Raises("toggle_pause")>>, <<>>)
       /\ UNCHANGED <<is_running, backend_is_running, backend_is_paused,
                      shift_pressed, active>>
    \/ /\ SHOW_PAUSE_NOTIFICATION
       /\ ev' = Ev("on_press", key,
                   <<Call("toggle_pause", <<>>, toggle_pause(backend_is_paused)),
                     Raises("show_notification")>>, <<>>)
       /\ UNCHANGED <<is_running, backend_is_running, backend_is_paused,
                      shift_pressed, active>>

\* on_press, lines 174-178, when a call raises: toggle_pause() itself (nothing
\* is flipped), or show_notification() after the flip
PauseKeyRaising(key) ==
    \/ /\ ev' = Ev("on_press", key, <<Raises("toggle_pause")>>, <<>>)
       /\ UNCHANGED <<is_running, backend_is_running, backend_is_paused,
                      shift_pressed, active>>
    \/ /\ SHOW_PAUSE_NOTIFICATION
       /\ backend_is_paused' = toggle_pause(backend_is_paused)
       /\ ev' = Ev("on_press", key,
                   <<Call("toggle_pause", <<>>, toggle_pause(backend_is_paused)),
                     Raises("show_notification")>>, <<>>)
       /\ UNCHANGED <<is_running, backend_is_running, shift_pressed, active>>

\* on_press, lines 181-184, when a call inside stop() raises: backend.stop()
\* (line 252, after _is_running = False), or listener.stop() (line 255, after
\* the backend was stopped)
EscRaising(key) ==
    /\ is_running
    /\ is_running' = FALSE
    /\ \/ /\ ev' = Ev("on_press", key, <<Raises("stop")>>, <<>>)
          /\ UNCHANGED <<backend_is_running, backend_is_paused>>
       \/ /\ listener # 0
          /\ backend_is_running' = Backend_stop(backend_is_running, backend_is_paused)[1]
          /\ backend_is_paused' = Backend_stop(backend_is_running, backend_is_paused)[2]
          /\ ev' = Ev("on_press", key,
                      <<Call("stop", <<>>, None), Raises("listener.stop")>>, <<>>)
    /\ UNCHANGED <<shift_pressed, active>>

\* on_press, lines 187-191, when a call of _handle_scroll raises: the calls
\* before it were made, that one raised, nothing was posted
ScrollKeyRaising(key) ==
    /\ \E h \in _handle_scroll(IF key = _scroll_up_key THEN "up" ELSE "down") :
          \E k \in 1..Len(h.calls) :
             ev' = Ev("on_press", key,
                      Append(SubSeq(h.calls, 1, k - 1), Raises(h.calls[k].fn)), <<>>)
    /\ UNCHANGED <<is_running, backend_is_running, backend_is_paused,
                   shift_pressed, active>>

\* ScrollController.on_press when one of the calls it makes raises: the except
\* clause of line 193 logs the exception and the handler returns
on_press_raising(key) ==
    IF key = "Key.shift" THEN FALSE
    ELSE IF key = _pause_key THEN PauseKeyRaising(key)
    ELSE IF key = "Key.esc" THEN EscRaising(key)
    ELSE IF _is_scroll_key(key) THEN ScrollKeyRaising(key)
    ELSE FALSE

\* a key-down event reaches the handler and a call made for it raises
KeyDownRaising ==
    /\ \E key \in Keys : on_press_raising(key)
    /\ UNCHANGED <<config, listener, created, pc>>

\* start, lines 226-227 and 238-243: backend.start() raises before it changed
\* anything; the exception is logged and re-raised, finally: stop() finds
\* _is_running false, and start() raises
StartBackendRaises ==
    /\ pc = "idle"
    /\ ~is_running
    /\ stop
    /\ ev' = Ev("start", "raise", <<Raises("start")>> \o stop_calls, <<>>)
    /\ UNCHANGED <<config, shift_pressed, listener, created, pc>>

\* start, lines 231-234 and 238-243: creating or starting keyboard.Listener
\* raises; no listener runs and none is assigned, finally: stop(), and start()
\* raises
StartListenerRaises ==
    /\ pc = "create"
    /\ stop
    /\ pc' = "idle"
    /\ ev' = Ev("start", "raise", <<Raises("keyboard.Listener")>> \o stop_calls, <<>>)
    /\ UNCHANGED <<config, shift_pressed, listener, created>>

NextRaising ==
    \/ KeyDown
    \/ KeyUp
    \/ StartBegin
    \/ StartListener
    \/ StartAssign
    \/ StartJoined
    \/ StartFinally
    \/ Stop
    \/ BackendStart
    \/ BackendStop
    \/ BackendTogglePause
    \/ BackendSetPause
    \/ KeyDownRaising
    \/ StartBackendRaises
    \/ StartListenerRaises

\* the controller with calls that can raise
SpecRaising == Init /\ [][NextRaising]_vars

-----------------------------------------------------------------------------
(* The thread inside start() keeps running: each of its steps is taken once  *)
(* it stays possible.  Key events and calls from other threads may or may    *)
(* not come.                                                                 *)

\* one configuration: the bindings "F12", "page_up", "page_down" on Windows
InitLive ==
    Constructed(Configuration(S_F12, S_page_up, S_page_down, TRUE, TRUE,
                              "win32", <<S_mintty>>))

SpecLive ==
    /\ InitLive
    /\ [][Next]_vars
    /\ WF_vars(StartListener)
    /\ WF_vars(StartAssign)
    /\ WF_vars(StartJoined)
    /\ WF_vars(StartFinally)

-----------------------------------------------------------------------------
(* main(): the controller is constructed, then started (main.py:260-263).    *)
(* __init__ calls get_backend() first (main.py:69); when that raises, the    *)
(* exception leaves __init__ and main(), and there is no controller to call. *)

\* get_backend accepting a backend whose dependency is missing
get_backend_swallowing(p, available) ==
    IF p \in Platforms THEN p ELSE "raise"

\* get_backend(): the backend of platform p, or "raise": an unsupported
\* platform (ImportError, __init__.py:40), or a backend whose native
\* dependency cannot be imported or whose display cannot be opened
\* (windows.py imports, linux.py:47-56, darwin.py:43-48)
get_backend(p, available) ==
    IF p \in Platforms /\ available THEN p ELSE "raise"

\* a platform get_backend() does not know
UnsupportedConfigurations ==
    {Configuration(S_F12, S_page_up, S_page_down, TRUE, TRUE, "freebsd", <<>>)}

\* main() is entered: there is no controller yet
InitMain ==
    \E c \in Configurations \cup UnsupportedConfigurations :
        /\ platform = c.platform
        /\ terminal_classes = c.terminal_classes
        /\ PAUSE_KEY = c.PAUSE_KEY
        /\ SCROLL_UP_KEY = c.SCROLL_UP_KEY
        /\ SCROLL_DOWN_KEY = c.SCROLL_DOWN_KEY
        /\ HORIZONTAL_SCROLL_ENABLED = c.HORIZONTAL_SCROLL_ENABLED
        /\ SHOW_PAUSE_NOTIFICATION = c.SHOW_PAUSE_NOTIFICATION
        /\ backend_is_running = FALSE
        /\ backend_is_paused = FALSE
        /\ is_running = FALSE
        /\ shift_pressed = FALSE
        /\ listener = 0
        /\ created = 0
        /\ active = {}
        /\ pc = "main"
        /\ ev = Ev("main", None, <<>>, <<>>)

\* ScrollController(): __init__ gets the backend and builds the controller,
\* or the exception of get_backend() propagates
Construct ==
    /\ pc = "main"
    /\ \E available \in BOOLEAN :
          LET b == get_backend(platform, available)
              a == [platform |-> platform, available |-> available]
          IN  IF b = "raise"
              THEN /\ pc' = "failed"
                   /\ ev' = Ev("__init__", a, <<Raises("get_backend")>>, <<>>)
              ELSE /\ pc' = "idle"
                   /\ ev' = Ev("__init__", a, <<Call("get_backend", <<>>, b)>>, <<>>)
    /\ UNCHANGED <<config, is_running, backend_is_running, backend_is_paused,
                   shift_pressed, listener, created, active>>

\* there is a controller: __init__ has returned
Built == pc \notin {"main", "failed"}

NextMain ==
    \/ Construct
    \/ Built /\ KeyDown
    \/ Built /\ KeyUp
    \/ Built /\ StartBegin
    \/ Built /\ StartListener
    \/ Built /\ StartAssign
    \/ Built /\ StartJoined
    \/ Built /\ StartFinally
    \/ Built /\ Stop
    \/ Built /\ BackendStart
    \/ Built /\ BackendStop
    \/ Built /\ BackendTogglePause
    \/ Built /\ BackendSetPause

SpecMain == InitMain /\ [][NextMain]_vars

-----------------------------------------------------------------------------
(* One scroll key event under a focus that can change: the foreground        *)
(* window is read twice, by get_active_window_class (windows.py:75) and by   *)
(* get_active_window_handle (windows.py:202).                                *)

\* win32gui.GetClassName on the desktop considered: window 1 is a terminal of
\* the catalog, every other window is a Notepad
GetClassName(classes, hwnd) == IF hwnd = 1 THEN classes[1] ELSE S_Notepad

\* WindowsBackend.get_active_window_class when GetForegroundWindow() gives fg
Windows_get_active_window_class(classes, fg) ==
    IF fg # 0 THEN GetClassName(classes, fg) ELSE NoneStr

\* the direction of the key event, and the foreground window at the class
\* query (fg1) and at the handle query (fg2)
FocusArguments == [direction : {"up", "down"}, fg1 : Handles, fg2 : Handles]

\* _handle_scroll(direction) running while the foreground window is fg1 at
\* line 129 and fg2 at line 139
HandleScrollFocus ==
    /\ ev.op = "argument"
    /\ \E h \in _handle_scroll(ev.arg.direction) :
          /\ \A i \in 1..Len(h.calls) :
                /\ h.calls[i].fn = "get_active_window_class"
                   => h.calls[i].ret =
                         Windows_get_active_window_class(terminal_classes, ev.arg.fg1)
                /\ h.calls[i].fn = "get_active_window_handle"
                   => h.calls[i].ret = ev.arg.fg2
          /\ ev' = Ev("_handle_scroll", ev.arg, h.calls, h.posts)
    /\ UNCHANGED <<config, is_running, backend_is_running, backend_is_paused,
                   shift_pressed, listener, created, active, pc>>

\* a Windows controller, and the arguments of one scroll key event
InitFocus ==
    \E c \in {x \in PlatformConfigurations : x.platform = "win32"} :
        \E a \in FocusArguments :
            ConstructedWith(c, Ev("argument", a, <<>>, <<>>))

NextFocus == HandleScrollFocus

SpecFocus == InitFocus /\ [][NextFocus]_vars

-----------------------------------------------------------------------------
(* start() called from several threads on one controller.  Here pc gives,    *)
(* for each thread, its position in start() with the two values it holds:    *)
(* the Listener it created (the context manager of its with statement) and   *)
(* the Listener it joins.                                                    *)

Threads == 1..MaxThreads

\* a thread's position in start()
At(at, own, waits) == [at |-> at, own |-> own, waits |-> waits]

\* start, line 212, in thread t: the is-running check
StartCheckT(t) ==
    /\ pc[t].at = "idle"
    /\ IF is_running
       THEN /\ ev' = Ev("start", <<t, "already running">>, <<>>, <<>>)
            /\ UNCHANGED pc
       ELSE /\ ev' = Ev("start", <<t, "checked">>, <<>>, <<>>)
            /\ pc' = [pc EXCEPT ![t] = At("checked", 0, 0)]
    /\ UNCHANGED <<config, is_running, backend_is_running, backend_is_paused,
                   shift_pressed, listener, created, active>>

\* start, lines 227-228, in thread t: backend.start() and _is_running = True
StartBackendT(t) ==
    /\ pc[t].at = "checked"
    /\ backend_is_running' = Backend_start(backend_is_running, backend_is_paused)[1]
    /\ backend_is_paused' = Backend_start(backend_is_running, backend_is_paused)[2]
    /\ is_running' = TRUE
    /\ pc' = [pc EXCEPT ![t] = At("create", 0, 0)]
    /\ ev' = Ev("start", <<t, "begin">>, <<Call("start", <<>>, None)>>, <<>>)
    /\ UNCHANGED <<config, shift_pressed, listener, created, active>>

\* start, line 231, in thread t: its keyboard.Listener is created and started
StartListenerT(t) ==
    /\ pc[t].at = "create"
    /\ created < MaxStarts
    /\ created' = created + 1
    /\ active' = active \cup {created + 1}
    /\ pc' = [pc EXCEPT ![t] = At("assign", created + 1, 0)]
    /\ ev' = Ev("start", <<t, "listener started">>, <<>>, <<>>)
    /\ UNCHANGED <<config, is_running, backend_is_running, backend_is_paused,
                   shift_pressed, listener>>

\* start, line 234, in thread t: `as self._listener`
StartAssignT(t) ==
    /\ pc[t].at = "assign"
    /\ listener' = pc[t].own
    /\ pc' = [pc EXCEPT ![t] = At("call join", pc[t].own, 0)]
    /\ ev' = Ev("start", <<t, "listener assigned">>, <<>>, <<>>)
    /\ UNCHANGED <<config, is_running, backend_is_running, backend_is_paused,
                   shift_pressed, created, active>>

\* start, line 236, in thread t: self._listener is read and its join() called
StartJoinT(t) ==
    /\ pc[t].at = "call join"
    /\ pc' = [pc EXCEPT ![t] = At("join", pc[t].own, listener)]
    /\ ev' = Ev("start", <<t, "join">>, <<>>, <<>>)
    /\ UNCHANGED <<config, is_running, backend_is_running, backend_is_paused,
                   shift_pressed, listener, created, active>>

\* start, line 236, in thread t: join() returns once the listener joined has
\* ended; leaving the with block stops the listener the thread created
StartJoinedT(t) ==
    /\ pc[t].at = "join"
    /\ pc[t].waits \notin active
    /\ active' = active \ {pc[t].own}
    /\ pc' = [pc EXCEPT ![t] = At("finally", 0, 0)]
    /\ ev' = Ev("start", <<t, "joined">>, <<>>, <<>>)
    /\ UNCHANGED <<config, is_running, backend_is_running, backend_is_paused,
                   shift_pressed, listener, created>>

\* start, lines 242-243, in thread t: finally: self.stop(), and start returns
StartFinallyT(t) ==
    /\ pc[t].at = "finally"
    /\ stop
    /\ pc' = [pc EXCEPT ![t] = At("idle", 0, 0)]
    /\ ev' = Ev("start", <<t, "return">>, stop_calls, <<>>)
    /\ UNCHANGED <<config, shift_pressed, listener, created>>

\* a constructed controller and the threads, none of them inside start()
InitThreads ==
    /\ platform = "win32"
    /\ terminal_classes = <<S_mintty>>
    /\ PAUSE_KEY = S_F12
    /\ SCROLL_UP_KEY = S_page_up
    /\ SCROLL_DOWN_KEY = S_page_down
    /\ HORIZONTAL_SCROLL_ENABLED = TRUE
    /\ SHOW_PAUSE_NOTIFICATION = TRUE
    /\ backend_is_running = FALSE
    /\ backend_is_paused = FALSE
    /\ is_running = FALSE
    /\ shift_pressed = FALSE
    /\ listener = 0
    /\ created = 0
    /\ active = {}
    /\ pc = [t \in Threads |-> At("idle", 0, 0)]
    /\ ev = Ev("__init__", None, <<>>, <<>>)

NextThreads ==
    \/ \E t \in Threads : StartCheckT(t)
    \/ \E t \in Threads : StartBackendT(t)
    \/ \E t \in Threads : StartListenerT(t)
    \/ \E t \in Threads : StartAssignT(t)
    \/ \E t \in Threads : StartJoinT(t)
    \/ \E t \in Threads : StartJoinedT(t)
    \/ \E t \in Threads : StartFinallyT(t)
    \/ Stop
    \/ KeyDown
    \/ KeyUp

SpecThreads == InitThreads /\ [][NextThreads]_vars

-----------------------------------------------------------------------------
(* Vocabulary of the properties.                                             *)

\* the calls of record e whose name is in fns, in order
CallsTo(e, fns) == SelectSeq(e.calls, LAMBDA c : c.fn \in fns)

ScrollFns == {"scroll_vertical", "scroll_horizontal"}

\* record e is a key-down that reached step 4 of the per-key algorithm: the
\* key is not Shift, not the pause key, not ESC, and is a scroll key
IsScrollEvent(e) ==
    /\ e.op = "on_press"
    /\ e.arg \notin {"Key.shift", _pause_key, "Key.esc"}
    /\ e.arg \in {_scroll_up_key, _scroll_down_key}

\* the direction on_press gives a scroll event: up wins when both keys are one
DirectionOf(e) == IF e.arg = _scroll_up_key THEN "up" ELSE "down"

\* in record e the window-class query returned an identity that is one of a
\* terminal: there is a window to scroll
OnTerminal(e) ==
    \E i \in 1..Len(e.calls) :
        /\ e.calls[i].fn = "get_active_window_class"
        /\ ~Falsy(e.calls[i].ret)
        /\ is_terminal_window(platform, terminal_classes, e.calls[i].ret)

\* the spec's Running (or Paused) state: start() is blocked in join() on a
\* listener whose thread runs, and the controller has not been stopped
Running == is_running /\ pc = "join" /\ listener \in active

-----------------------------------------------------------------------------
(* C1. Pause gate.                                                           *)

\* C1: whenever the backend is paused when on_press handles a key-down of the
\* scroll-up or scroll-down key, that event calls neither scroll_vertical nor
\* scroll_horizontal, and does not query the active window either.
C1_PauseGate ==
    [][(/\ backend_is_paused
        /\ ev'.op = "on_press"
        /\ ev'.arg \in {_scroll_up_key, _scroll_down_key})
       => CallsTo(ev', ScrollFns \cup {"get_active_window_class",
                                       "is_terminal_window",
                                       "get_active_window_handle"}) = <<>>]_vars

\* a scroll key was handled as a scroll event while the backend was paused (a
\* scroll event leaves the flag as it was), on Windows where a window answers
C1_Witness ==
    /\ IsScrollEvent(ev)
    /\ backend_is_paused
    /\ platform = "win32"
    /\ ev.calls = <<>>

-----------------------------------------------------------------------------
(* C2. ESC always quits.                                                     *)

\* C2: for every configuration of the bindings, and every value of Shift and
\* of the paused flag, an ESC key-down handled while the controller is Running
\* or Paused leaves the controller stopped: _is_running false, backend
\* stopped, the listener's thread stopped.
C2_EscAlwaysQuits ==
    [][(Running /\ ev'.op = "on_press" /\ ev'.arg = "Key.esc")
       => (~is_running' /\ ~backend_is_running' /\ listener \notin active')]_vars

-----------------------------------------------------------------------------
(* C3. Classification gate.                                                  *)

\* in record e the window-class query returned an identity and
\* is_terminal_window, called on that identity, returned true
GateOpen(e) ==
    \E i \in 1..Len(e.calls) :
        /\ e.calls[i].fn = "get_active_window_class"
        /\ ~Falsy(e.calls[i].ret)
        /\ \E j \in (i + 1)..Len(e.calls) :
              /\ e.calls[j].fn = "is_terminal_window"
              /\ e.calls[j].params = <<e.calls[i].ret>>
              /\ e.calls[j].ret = TRUE

\* C3: a key event makes a scroll call only if get_active_window_class
\* returned a non-empty identity and is_terminal_window returned true for it;
\* a scroll key event whose window is absent or no terminal makes no scroll
\* call and leaves the controller, the backend and the listener as they were.
C3_ClassificationGate ==
    [][ev'.op = "on_press"
       => /\ CallsTo(ev', ScrollFns) # <<>> => GateOpen(ev')
          /\ (IsScrollEvent(ev') /\ ~GateOpen(ev'))
             => /\ CallsTo(ev', ScrollFns) = <<>>
                /\ UNCHANGED <<is_running, backend_is_running, backend_is_paused,
                               listener, active, pc>>]_vars

\* a scroll key was pressed while Running over a window that is no terminal,
\* and no scroll call was made
C3_Witness ==
    /\ IsScrollEvent(ev)
    /\ Running
    /\ \E i \in 1..Len(ev.calls) :
          ev.calls[i].fn = "is_terminal_window" /\ ev.calls[i].ret = FALSE
    /\ CallsTo(ev, ScrollFns) = <<>>

-----------------------------------------------------------------------------
(* C4. Shift-gating.                                                         *)

\* C4: with horizontal scrolling enabled and Shift pressed, an unpaused scroll
\* key event on a terminal window makes exactly one call to scroll_horizontal,
\* with 'left' for scroll-up and 'right' for scroll-down, and no call to
\* scroll_vertical.
C4_ShiftGating ==
    [][(/\ HORIZONTAL_SCROLL_ENABLED
        /\ shift_pressed
        /\ ~backend_is_paused
        /\ IsScrollEvent(ev')
        /\ OnTerminal(ev'))
       => /\ Len(CallsTo(ev', {"scroll_horizontal"})) = 1
          /\ CallsTo(ev', {"scroll_vertical"}) = <<>>
          /\ CallsTo(ev', {"scroll_horizontal"})[1].params[2] =
                (IF DirectionOf(ev') = "up" THEN "left" ELSE "right")]_vars

\* a scroll-down key was pressed with Shift held and horizontal scrolling
\* enabled, and scroll_horizontal was called with 'right'
C4_Witness ==
    /\ IsScrollEvent(ev)
    /\ DirectionOf(ev) = "down"
    /\ HORIZONTAL_SCROLL_ENABLED /\ shift_pressed /\ ~backend_is_paused
    /\ OnTerminal(ev)
    /\ Len(CallsTo(ev, {"scroll_horizontal"})) = 1
    /\ CallsTo(ev, {"scroll_horizontal"})[1].params[2] = "right"

-----------------------------------------------------------------------------
(* C5. Shift has no effect when horizontal scrolling is disabled.            *)

\* C5: with horizontal scrolling disabled, whatever Shift is, an unpaused
\* scroll key event on a terminal window makes exactly one call to
\* scroll_vertical, with the event's own direction, and none to
\* scroll_horizontal.
C5_ShiftIgnoredWhenDisabled ==
    [][(/\ ~HORIZONTAL_SCROLL_ENABLED
        /\ ~backend_is_paused
        /\ IsScrollEvent(ev')
        /\ OnTerminal(ev'))
       => /\ Len(CallsTo(ev', {"scroll_vertical"})) = 1
          /\ CallsTo(ev', {"scroll_horizontal"}) = <<>>
          /\ CallsTo(ev', {"scroll_vertical"})[1].params[2] = DirectionOf(ev')]_vars

\* a scroll-down key was pressed with Shift held and horizontal scrolling
\* disabled, and scroll_vertical was called with 'down'
C5_Witness ==
    /\ IsScrollEvent(ev)
    /\ DirectionOf(ev) = "down"
    /\ ~HORIZONTAL_SCROLL_ENABLED /\ shift_pressed /\ ~backend_is_paused
    /\ OnTerminal(ev)
    /\ Len(CallsTo(ev, {"scroll_vertical"})) = 1
    /\ CallsTo(ev, {"scroll_vertical"})[1].params[2] = "down"

-----------------------------------------------------------------------------
(* C6. A failed scroll is not fatal.                                         *)

\* record e is a scroll event whose scroll call returned false
FailedScroll(e) ==
    /\ IsScrollEvent(e)
    /\ \E i \in 1..Len(e.calls) :
          e.calls[i].fn \in ScrollFns /\ e.calls[i].ret = FALSE

\* C6: an event whose scroll call returns false changes neither the
\* controller's nor the backend's running flag, nor the pause flag, nor the
\* listener; and the scroll key event that follows a failed one is dispatched
\* to the backend again: the window is queried and, over a terminal, the
\* scroll call is made.
C6_FailedScrollNotFatal ==
    [][/\ FailedScroll(ev')
          => UNCHANGED <<is_running, backend_is_running, backend_is_paused,
                         listener, active, pc>>
       /\ (FailedScroll(ev) /\ IsScrollEvent(ev'))
          => /\ CallsTo(ev', {"get_active_window_class"}) # <<>>
             /\ OnTerminal(ev') => Len(CallsTo(ev', ScrollFns)) = 1]_vars

\* a scroll call has just returned false and the controller is still Running,
\* unpaused
C6_Witness ==
    /\ FailedScroll(ev)
    /\ Running
    /\ ~backend_is_paused

-----------------------------------------------------------------------------
(* C7. The Windows scroll contract.                                          *)

\* the directions the contract names for each call
RecognizedDirections(op) ==
    IF op = "scroll_vertical" THEN {"up", "down"} ELSE {"left", "right"}

\* the command table of each call
CommandTable(op) ==
    IF op = "scroll_vertical" THEN SCROLL_COMMANDS ELSE HSCROLL_COMMANDS

\* C7: scroll_vertical with 'up' or 'down', and scroll_horizontal with 'left'
\* or 'right', on a non-zero handle that is a window and with a PostMessage
\* that does not raise, posts exactly one message to that handle and returns
\* true; a call returns false only when the handle is zero or no window, the
\* direction is not in the command table, or posting fails.
C7_WindowsScrollContract ==
    ev.op \in ScrollFns
    => LET a == ev.arg
       IN  /\ (/\ a.direction \in RecognizedDirections(ev.op)
               /\ a.hwnd # 0 /\ a.isWindow /\ ~a.postRaises)
              => /\ ev.calls[1].ret = TRUE
                 /\ Len(ev.posts) = 1
                 /\ ev.posts[1].hwnd = a.hwnd
           /\ ev.calls[1].ret = FALSE
              => \/ a.hwnd = 0
                 \/ ~a.isWindow
                 \/ a.direction \notin DOMAIN CommandTable(ev.op)
                 \/ a.postRaises

-----------------------------------------------------------------------------
(* C8. Substring classification on every backend.                            *)

\* C8: on every backend, is_terminal_window(x) is true whenever some catalog
\* entry, compared case-insensitively, equals x or is a substring of x.
C8_SubstringClassification ==
    ev.op = "is_terminal_window"
    => ((/\ ~Falsy(ev.arg)
         /\ \E i \in 1..Len(terminal_classes) :
               IsSubstring(Lower(terminal_classes[i]), Lower(ev.arg)))
        => ev.calls[1].ret = TRUE)

-----------------------------------------------------------------------------
(* C9. Never paused while not running.                                       *)

\* C9: in every reachable state, whatever calls and key events led to it, the
\* backend is not in the state running = false, paused = true.
C9_NeverPausedWhileStopped == ~(~backend_is_running /\ backend_is_paused)

-----------------------------------------------------------------------------
(* C10. Unbound actions are unreachable.                                     *)

\* the configured name is "none", empty, or (in any case) not in KEY_MAP
UnboundName(name) ==
    name = S_none \/ Falsy(name) \/ Lower(name) \notin DOMAIN KEY_MAP

\* record e dispatched a scroll in a direction in dirs: it queried the window
\* without any scroll call to tell the direction, or called a scroll with one
DispatchedIn(e, dirs) ==
    \E i \in 1..Len(e.calls) :
        e.calls[i].fn \in ScrollFns /\ e.calls[i].params[2] \in dirs

\* C10: a binding whose configured name is "none", empty or not in KEY_MAP
\* resolves to no binding, and then no key-down, whatever the key, triggers
\* its action: the pause toggle, the scroll-up dispatch, the scroll-down
\* dispatch.
C10_UnboundUnreachable ==
    ev.op = "on_press"
    => /\ UnboundName(PAUSE_KEY)
          => /\ _pause_key = None
             /\ CallsTo(ev, {"toggle_pause"}) = <<>>
       /\ UnboundName(SCROLL_UP_KEY)
          => /\ _scroll_up_key = None
             /\ ~DispatchedIn(ev, {"up", "left"})
       /\ UnboundName(SCROLL_DOWN_KEY)
          => /\ _scroll_down_key = None
             /\ ~DispatchedIn(ev, {"down", "right"})
       /\ (UnboundName(SCROLL_UP_KEY) /\ UnboundName(SCROLL_DOWN_KEY))
          => CallsTo(ev, {"get_active_window_class"}) = <<>>

-----------------------------------------------------------------------------
(* C11. Controller stop() is idempotent.                                     *)

\* C11: a call of stop() returns (no call it makes raises) and leaves
\* _is_running false; made on a running controller it stops the backend and
\* the assigned listener; made on a controller that is not running (Idle,
\* Stopped, or right after another stop()) it calls neither backend.stop()
\* nor listener.stop() and changes nothing.
C11_StopIdempotent ==
    [][ev'.op = "stop"
       => /\ ~is_running'
          /\ CallsTo(ev', {"raise"}) = <<>>
          /\ is_running
             => /\ Len(CallsTo(ev', {"stop"})) = 1
                /\ ~backend_is_running' /\ ~backend_is_paused'
                /\ listener \notin active'
          /\ (~is_running \/ ev.op = "stop")
             => /\ ev'.calls = <<>>
                /\ UNCHANGED <<is_running, backend_is_running, backend_is_paused,
                               listener, active, pc>>]_vars

\* stop() was called on a controller that had been started and stopped, whose
\* listener is still assigned, and made no call
C11_Witness ==
    /\ ev.op = "stop"
    /\ ev.calls = <<>>
    /\ ~is_running
    /\ listener # 0
    /\ listener \notin active

-----------------------------------------------------------------------------
(* C12. start() returns only in the terminal state.                          *)

\* the last step of a call of start() that got past the is-running check: it
\* returns (after join() ended) or raises (backend.start() or the listener
\* raised)
StartExits(e) == e.op = "start" /\ e.arg \in {"return", "raise"}

\* C12: when start() returns or raises, _is_running is false, the backend's
\* running and paused flags are false, and no listener thread runs.
C12_StartReturnsTerminal ==
    [][StartExits(ev')
       => /\ ~is_running'
          /\ ~backend_is_running'
          /\ ~backend_is_paused'
          /\ active' = {}]_vars

-----------------------------------------------------------------------------
(* C13. Pause toggling is a pure flip.                                       *)

\* C13: toggle_pause() stores the negation of the paused flag and returns it;
\* a toggle_pause() that follows a toggle_pause() restores the value the flag
\* had before the first; set_pause(p) leaves the flag equal to p, so
\* set_pause(true) leaves it true whatever it was; none of them changes the
\* running flag.
C13_PauseIsAFlip ==
    [][/\ ev'.op = "backend.toggle_pause"
          => /\ backend_is_paused' = ~backend_is_paused
             /\ ev'.calls[1].ret = ~backend_is_paused
             /\ backend_is_running' = backend_is_running
             /\ ev.op = "backend.toggle_pause"
                => backend_is_paused' = ~ev.calls[1].ret
       /\ ev'.op = "backend.set_pause"
          => /\ backend_is_paused' = ev'.calls[1].params[1]
             /\ backend_is_running' = backend_is_running]_vars

\* toggle_pause() was called on a running, paused backend and returned false
C13_Witness ==
    /\ ev.op = "backend.toggle_pause"
    /\ ev.calls[1].ret = FALSE
    /\ ~backend_is_paused
    /\ backend_is_running

-----------------------------------------------------------------------------
(* C14. Backend start() and stop() are idempotent and clear pause.           *)

\* C14: after BaseBackend.start() the backend has running = true and
\* paused = false, after BaseBackend.stop() running = false and
\* paused = false, whatever the two flags were; a start() that follows a
\* start(), and a stop() that follows a stop(), changes neither flag.
C14_BackendStartStop ==
    [][/\ ev'.op = "backend.start"
          => /\ backend_is_running' /\ ~backend_is_paused'
             /\ ev.op = "backend.start"
                => UNCHANGED <<backend_is_running, backend_is_paused>>
       /\ ev'.op = "backend.stop"
          => /\ ~backend_is_running' /\ ~backend_is_paused'
             /\ ev.op = "backend.stop"
                => UNCHANGED <<backend_is_running, backend_is_paused>>]_vars

\* BaseBackend.stop() was called while the controller was Running, and left
\* the backend stopped and unpaused under a controller that still runs
C14_Witness ==
    /\ ev.op = "backend.stop"
    /\ Running
    /\ ~backend_is_running
    /\ ~backend_is_paused

-----------------------------------------------------------------------------
(* C15. Classification is case-insensitive.                                  *)

-----------------------------------------------------------------------------
(* C16. External stop under concurrency.                                     *)

\* C16: once stop() has been called from outside the handlers while a call of
\* start() is in progress (at any of its steps, the ones between
\* _is_running = True and the assignment of _listener included), that call of
\* start() eventually returns, with the controller not running and no
\* listener thread running.
C16_ExternalStopEnds ==
    (ev.op = "stop" /\ pc # "idle")
    ~> (pc = "idle" /\ ~is_running /\ active = {})

-----------------------------------------------------------------------------
(* C17. Handler fault isolation.                                             *)

\* record e is a key-down during which a call raised
RaisedIn(e) == e.op = "on_press" /\ CallsTo(e, {"raise"}) # <<>>

\* C17: a key-down during which a call raises does not end the listener
\* thread; and when the listener of a started controller runs, the pause key
\* is not ESC, and the event before was such a key-down (which found the
\* controller running, or was itself an ESC whose stop() raised), an ESC
\* key-down whose calls do not raise leaves the controller stopped with its
\* listener torn down.
C17_FaultIsolation ==
    [][/\ RaisedIn(ev') => active' = active
       /\ (/\ RaisedIn(ev)
           /\ pc = "join" /\ listener \in active
           /\ is_running \/ ev.arg = "Key.esc"
           /\ _pause_key # "Key.esc"
           /\ ev'.op = "on_press" /\ ev'.arg = "Key.esc" /\ ~RaisedIn(ev'))
          => (~is_running' /\ listener \notin active')]_vars

-----------------------------------------------------------------------------
(* C18. A zero handle is still dispatched and fails cleanly.                 *)

\* in record e no window handle was obtained: get_active_window_handle was
\* not called (the backend has none) or returned zero
ZeroHandle(e) ==
    \A i \in 1..Len(e.calls) :
        e.calls[i].fn = "get_active_window_handle" => e.calls[i].ret = 0

\* C18: an unpaused scroll key event on a terminal window for which no handle
\* is available makes exactly one scroll call, with handle 0; the call
\* returns false, posts nothing, and the controller, the backend and the
\* listener stay as they were.
C18_ZeroHandleDispatched ==
    [][(/\ ~backend_is_paused
        /\ IsScrollEvent(ev')
        /\ OnTerminal(ev')
        /\ ZeroHandle(ev'))
       => /\ Len(CallsTo(ev', ScrollFns)) = 1
          /\ CallsTo(ev', ScrollFns)[1].params[1] = 0
          /\ CallsTo(ev', ScrollFns)[1].ret = FALSE
          /\ ev'.posts = <<>>
          /\ UNCHANGED <<is_running, backend_is_running, backend_is_paused,
                         listener, active, pc>>]_vars

\* while Running and unpaused, a scroll key was pressed over a terminal
\* window, the handle query returned zero, and the scroll call was made with
\* handle 0 and returned false
C18_Witness ==
    /\ IsScrollEvent(ev)
    /\ Running
    /\ ~backend_is_paused
    /\ OnTerminal(ev)
    /\ CallsTo(ev, {"get_active_window_handle"}) # <<>>
    /\ ZeroHandle(ev)
    /\ Len(CallsTo(ev, ScrollFns)) = 1
    /\ CallsTo(ev, ScrollFns)[1].params[1] = 0
    /\ CallsTo(ev, ScrollFns)[1].ret = FALSE

-----------------------------------------------------------------------------
(* C19. Pause key transitions.                                               *)

\* in record e the call of fn raised
RaisedBy(e, fn) ==
    \E i \in 1..Len(e.calls) :
        e.calls[i].fn = "raise" /\ e.calls[i].params = <<fn>>

\* C19: a key-down of the configured pause key during which toggle_pause()
\* returns calls toggle_pause() exactly once and flips the backend's paused
\* flag; it calls neither stop nor a scroll nor a window query and leaves
\* the controller, the backend's running flag and the listener as they
\* were; this also holds when show_notification() raises after the flip.
C19_PauseKeyTransitions ==
    [][(/\ ev'.op = "on_press"
        /\ _pause_key # None
        /\ ev'.arg = _pause_key
        /\ ~RaisedBy(ev', "toggle_pause"))
       => /\ Len(CallsTo(ev', {"toggle_pause"})) = 1
          /\ CallsTo(ev', {"toggle_pause"})[1].ret = ~backend_is_paused
          /\ backend_is_paused' = ~backend_is_paused
          /\ CallsTo(ev', ScrollFns \cup {"stop", "listener.stop",
                                          "get_active_window_class",
                                          "is_terminal_window",
                                          "get_active_window_handle"}) = <<>>
          /\ UNCHANGED <<is_running, backend_is_running, listener, active, pc>>]_vars

\* while the controller runs, the pause key was pressed, the notification
\* raised, and the backend is paused all the same
C19_Witness ==
    /\ Running
    /\ ev.op = "on_press"
    /\ _pause_key # None
    /\ ev.arg = _pause_key
    /\ RaisedBy(ev, "show_notification")
    /\ CallsTo(ev, {"toggle_pause"})[1].ret = TRUE
    /\ backend_is_paused

-----------------------------------------------------------------------------
(* C20. Stopped is a terminal state.                                         *)

\* the spec's Stopped state, at rest: a listener was created, the controller
\* was stopped, no listener thread runs, and start() has returned
Stopped == ~is_running /\ created > 0 /\ active = {} /\ pc = "idle"

\* C20: no operation or key event takes the controller out of Stopped: it
\* does not run again and no new keyboard listener is created.
C20_StoppedIsTerminal ==
    [][Stopped => (~is_running' /\ created' = created /\ active' = {})]_vars

-----------------------------------------------------------------------------
(* C21. Shift tracking and frame.                                            *)

\* record e is a key-down or a key-up of Shift
IsShiftEvent(e) == e.op \in {"on_press", "on_release"} /\ e.arg = "Key.shift"

\* C21: a Shift key-down leaves _shift_pressed true and a Shift key-up leaves
\* it false, and neither makes a call nor changes the controller, the backend
\* or the listener; a key-up of another key changes nothing at all; and no
\* step other than a Shift event changes _shift_pressed, so that it tells
\* whether the last Shift event was a key-down.
C21_ShiftTracking ==
    [][/\ IsShiftEvent(ev')
          => /\ shift_pressed' = (ev'.op = "on_press")
             /\ ev'.calls = <<>>
             /\ ev'.posts = <<>>
             /\ UNCHANGED <<is_running, backend_is_running, backend_is_paused,
                            listener, created, active, pc>>
       /\ (ev'.op = "on_release" /\ ev'.arg # "Key.shift")
          => /\ ev'.calls = <<>>
             /\ UNCHANGED <<is_running, backend_is_running, backend_is_paused,
                            shift_pressed, listener, created, active, pc>>
       /\ ~IsShiftEvent(ev') => UNCHANGED shift_pressed]_vars

\* while the controller runs with Shift held, another key was released and
\* Shift is still held
C21_Witness ==
    /\ Running
    /\ ev.op = "on_release"
    /\ ev.arg # "Key.shift"
    /\ shift_pressed

-----------------------------------------------------------------------------
(* C22. Fatal startup errors keep the controller out of Running.             *)

\* C22: when the platform is not supported, or the backend's dependency is
\* missing, constructing the controller raises out of get_backend(); once it
\* has, backend.start() is never called, no keyboard listener is created and
\* _is_running is never true.
C22_FatalStartup ==
    [][/\ (/\ pc = "main"
           /\ ev'.op = "__init__"
           /\ platform \notin Platforms \/ ~ev'.arg.available)
          => /\ pc' = "failed"
             /\ RaisedBy(ev', "get_backend")
       /\ pc' = "failed"
          => /\ ~is_running' /\ ~backend_is_running'
             /\ created' = 0 /\ active' = {} /\ listener' = 0
             /\ CallsTo(ev', {"start"}) = <<>>
       /\ pc = "failed" => pc' = "failed"]_vars

\* on Linux, constructing the controller failed (python-xlib or the X display
\* is missing), and nothing runs
C22_Witness ==
    /\ pc = "failed"
    /\ platform = "linux"
    /\ RaisedBy(ev, "get_backend")
    /\ ~is_running

-----------------------------------------------------------------------------
(* C23. Target consistency.                                                  *)

\* C23: in one scroll key event, a scroll call that is given a window is
\* given the window whose class was classified in that event, and a scroll
\* message is only posted to a window whose class is one of a terminal,
\* also when the focus changes between the two queries.
C23_TargetConsistency ==
    ev.op = "_handle_scroll"
    => /\ \A i \in 1..Len(ev.calls) :
             (ev.calls[i].fn \in ScrollFns /\ ev.calls[i].params[1] # 0)
             => ev.calls[i].params[1] = ev.arg.fg1
       /\ \A j \in 1..Len(ev.posts) :
             is_terminal_window(platform, terminal_classes,
                                GetClassName(terminal_classes, ev.posts[j].hwnd))

-----------------------------------------------------------------------------
(* C24. Dispatch only while Running.                                         *)

\* C24: a key-down handled while the controller's _is_running is false
\* (before start(), or after stop() has run) makes no scroll call and does
\* not change the backend's paused flag.
C24_DispatchOnlyWhileRunning ==
    [][(ev'.op = "on_press" /\ ~is_running)
       => /\ CallsTo(ev', ScrollFns) = <<>>
          /\ backend_is_paused' = backend_is_paused]_vars

-----------------------------------------------------------------------------
(* C25. A single listener.                                                   *)

\* C25: whatever the interleaving of the start() and stop() calls of the
\* threads, at most one keyboard listener runs at any time.
C25_SingleListener == Cardinality(active) <= 1

=============================================================================
